---- MODULE Spec2Model ----
(***************************************************************************)
(* A model of src/src/collection.rs: the Entity record with its update /   *)
(* merge algorithm and the Collection graph store (node array, adjacency   *)
(* lists, URL index) with add / merge / add_edge / len / is_empty.         *)
(*                                                                         *)
(* Ids are the naturals 0, 1, 2, ... (Id(usize)); a Vec is a sequence, so  *)
(* the element the code addresses as v[id] is the sequence's v[id + 1].    *)
(* Dates are naturals ordered by <, as time::Date is ordered by Ord.       *)
(* A panic (failed assert, index out of bounds) ends the run: the call     *)
(* does not return, the collection is left as the panic found it.          *)
(***************************************************************************)
EXTENDS Integers, Sequences, FiniteSets, TLC

\* ---------------------------------------------------------------- bounds
\* Observation dates are 1..MaxDate.
MaxDate == 2
\* Observation dates are 1..MaxMergeDate where the graph has no edge.
MaxMergeDate == 3
\* At most MaxNodes node slots are ever allocated.
MaxNodes == 2
\* An adjacency list is never grown beyond MaxDeg targets.
MaxDeg == 2

Urls == {"https://x", "https://y"}
Names == {"Alpha", "Beta"}
Labels == {"l1"}
\* add_edge is called with the Ids 0..MaxNodes: those of the nodes, and one
\* that is never the Id of a node.
Ids == 0..MaxNodes

\* Option<T>: None, or Some(x).
None == <<>>
Some(x) == <<x>>

VARIABLES
    nodes,      \* Collection.nodes: Vec<Entity>
    edges,      \* Collection.edges: Vec<Edges>
    urls,       \* Collection.urls: HashMap<Url, Id>
    last,       \* the last call: its name, its outcome (ok, panic), the branch
                \* it took and the value it returned
    observed,   \* history: per URL, the dates / names / labels of every entity
                \* handed to add or merge so far
    created     \* history: the Ids returned by node-creating calls, in call order

vars == <<nodes, edges, urls, last, observed, created>>

\* ---------------------------------------------------------------- Entity

\* Entity::new
Entity_new(url, created_at, maybe_name, labels) ==
    [url        |-> url,
     created_at |-> created_at,
     updated_at |-> {},
     names      |-> {maybe_name[k] : k \in DOMAIN maybe_name},
     labels     |-> labels]

\* Entity::update with the earliest-date test left out.
Entity_update_keep_created(self, updated_at, names, labels) ==
    [self EXCEPT !.updated_at = @ \cup {updated_at},
                 !.names      = @ \cup names,
                 !.labels     = @ \cup labels]

\* Entity::update replacing the names and labels instead of extending them.
Entity_update_replace_sets(self, updated_at, names, labels) ==
    LET dated == IF updated_at < self.created_at
                 THEN [self EXCEPT !.updated_at = @ \cup {self.created_at},
                                   !.created_at = updated_at]
                 ELSE [self EXCEPT !.updated_at = @ \cup {updated_at}]
    IN  [dated EXCEPT !.names  = names,
                      !.labels = labels]

\* Entity::update
Entity_update(self, updated_at, names, labels) ==
    LET dated == IF updated_at < self.created_at
                 THEN [self EXCEPT !.updated_at = @ \cup {self.created_at},
                                   !.created_at = updated_at]
                 ELSE [self EXCEPT !.updated_at = @ \cup {updated_at}]
    IN  [dated EXCEPT !.names  = @ \cup names,
                      !.labels = @ \cup labels]

\* Entity::merge taking the other entity's updated_at along.
Entity_merge_with_history(self, other) ==
    [Entity_update(self, other.created_at, other.names, other.labels)
        EXCEPT !.updated_at = @ \cup other.updated_at]

\* Entity::merge
Entity_merge(self, other) ==
    Entity_update(self, other.created_at, other.names, other.labels)

\* Every entity the acquisition layer can build from the given dates, names
\* and labels: one URL, one date, at most one name, any set of labels.
EntitiesOf(dates, names, labels) ==
    {Entity_new(u, d, n, l) :
        u \in Urls, d \in dates,
        n \in {None} \cup {Some(x) : x \in names}, l \in SUBSET labels}

\* The observations fed to the whole collection (nodes and edges) ...
Entities == EntitiesOf(1..MaxDate, {"Alpha"}, {})
\* ... and to the collection without edges.
RichEntities == EntitiesOf(1..MaxMergeDate, Names, Labels)
\* ... those of them that share the first URL ...
OneUrlEntities == {e \in RichEntities : e.url = "https://x"}
\* ... and to the collection whose stored entities are merged with each other.
ResidentEntities == EntitiesOf(1..MaxMergeDate, {"Alpha"}, {})

\* ------------------------------------------------------------ Collection

\* Index<Id> for Vec<Entity> / Vec<Edges>: in bounds, or a panic.
InBounds(v, i) == i < Len(v)
At(v, i) == v[i + 1]

\* Collection::contains
contains(url) == url \in DOMAIN urls

\* Collection::id
id(url) == IF url \in DOMAIN urls THEN Some(urls[url]) ELSE None

\* Collection::entity
entity(i) == At(nodes, i)

\* HashMap::insert that drops the entry.
MapInsert_skip(m, k, v) == m

\* HashMap::insert that keeps the value of a key it already holds.
MapInsert_keep_first(m, k, v) ==
    [x \in DOMAIN m \cup {k} |-> IF x \in DOMAIN m THEN m[x] ELSE v]

\* HashMap::insert
MapInsert(m, k, v) == [x \in DOMAIN m \cup {k} |-> IF x = k THEN v ELSE m[x]]

\* Vec::contains
VecContains(v, x) == \E k \in 1..Len(v) : v[k] = x

\* The history of observations, after `e` was handed to add or merge.
Observe(e) ==
    [observed EXCEPT ![e.url] = [dates  |-> @.dates \cup {e.created_at},
                                 names  |-> @.names \cup e.names,
                                 labels |-> @.labels \cup e.labels]]

Running == last.outcome = "ok"

Init ==
    /\ nodes = <<>>
    /\ edges = <<>>
    /\ urls = <<>>
    /\ last = [op |-> "new", outcome |-> "ok"]
    /\ observed = [u \in Urls |-> [dates |-> {}, names |-> {}, labels |-> {}]]
    /\ created = <<>>

\* Collection::add taking the Id one short of the slot it fills.
AddAs_stale_id(op, e, known) ==
    LET i == IF Len(nodes) = 0 THEN 0 ELSE Len(nodes) - 1
        pushed == Append(nodes, e)
    IN  /\ nodes' = pushed
        /\ edges' = Append(edges, <<>>)
        /\ urls' = MapInsert(urls, At(pushed, i).url, i)
        /\ last' = [op |-> op, outcome |-> "ok", known |-> known, id |-> i]
        /\ observed' = Observe(e)
        /\ created' = Append(created, i)

\* Collection::add starting every adjacency list afresh.
AddAs_reset_edges(op, e, known) ==
    LET i == Len(nodes)
        pushed == Append(nodes, e)
    IN  /\ nodes' = pushed
        /\ edges' = [k \in 1..(Len(edges) + 1) |-> <<>>]
        /\ urls' = MapInsert(urls, At(pushed, i).url, i)
        /\ last' = [op |-> op, outcome |-> "ok", known |-> known, id |-> i]
        /\ observed' = Observe(e)
        /\ created' = Append(created, i)

\* Collection::add reading len() after the push: its Id is one past the slot.
AddAs_id_after_push(op, e, known) ==
    LET pushed == Append(nodes, e)
        i == Len(pushed)
    IN  /\ nodes' = pushed
        /\ edges' = Append(edges, <<>>)
        /\ urls' = MapInsert(urls, e.url, i)
        /\ last' = [op |-> op, outcome |-> "ok", known |-> known, id |-> i]
        /\ observed' = Observe(e)
        /\ created' = Append(created, i)

\* Collection::add without the push of the new node's adjacency list.
AddAs_no_edge_list(op, e, known) ==
    LET i == Len(nodes)
        pushed == Append(nodes, e)
    IN  /\ nodes' = pushed
        /\ edges' = edges
        /\ urls' = MapInsert(urls, At(pushed, i).url, i)
        /\ last' = [op |-> op, outcome |-> "ok", known |-> known, id |-> i]
        /\ observed' = Observe(e)
        /\ created' = Append(created, i)

\* The body of Collection::add, called as `op` (add itself, or merge's
\* first-sight path).
AddAs(op, e, known) ==
    IF Len(nodes) # Len(edges)
    THEN /\ last' = [op |-> op, outcome |-> "panic", known |-> known]
         /\ UNCHANGED <<nodes, edges, urls, observed, created>>
    ELSE LET i == Len(nodes)
             pushed == Append(nodes, e)
         IN  /\ nodes' = pushed
             /\ edges' = Append(edges, <<>>)
             /\ urls' = MapInsert(urls, At(pushed, i).url, i)
             /\ last' = [op |-> op, outcome |-> "ok", known |-> known, id |-> i]
             /\ observed' = Observe(e)
             /\ created' = Append(created, i)

\* Collection::add
add(e) ==
    /\ Running
    /\ Len(nodes) < MaxNodes
    /\ AddAs("add", e, contains(e.url))

\* Collection::merge without the lookup: every entity is added.
merge_always_add(e) ==
    /\ Running
    /\ Len(nodes) < MaxNodes
    /\ AddAs("merge", e, contains(e.url))

\* Collection::merge
merge(e) ==
    /\ Running
    /\ IF id(e.url) # None
       THEN LET i == id(e.url)[1]
            IN  IF InBounds(nodes, i)
                THEN /\ nodes' = [nodes EXCEPT ![i + 1] = Entity_merge(@, e)]
                     /\ last' = [op |-> "merge", outcome |-> "ok",
                                 known |-> TRUE, id |-> i]
                     /\ observed' = Observe(e)
                     /\ UNCHANGED <<edges, urls, created>>
                ELSE /\ last' = [op |-> "merge", outcome |-> "panic",
                                 known |-> TRUE]
                     /\ UNCHANGED <<nodes, edges, urls, observed, created>>
       ELSE /\ Len(nodes) < MaxNodes
            /\ AddAs("merge", e, FALSE)

\* Collection::add_edge without the test for a target already present.
add_edge_no_check(from, to) ==
    /\ Running
    /\ IF ~InBounds(edges, from)
       THEN /\ last' = [op |-> "add_edge", outcome |-> "panic"]
            /\ UNCHANGED <<nodes, edges, urls, observed, created>>
       ELSE /\ Len(At(edges, from)) < MaxDeg
            /\ edges' = [edges EXCEPT ![from + 1] = Append(@, to)]
            /\ last' = [op |-> "add_edge", outcome |-> "ok",
                        known |-> VecContains(At(edges, from), to)]
            /\ UNCHANGED <<nodes, urls, observed, created>>

\* Collection::add_edge putting a new target at the head of the list.
add_edge_push_front(from, to) ==
    /\ Running
    /\ IF ~InBounds(edges, from)
       THEN /\ last' = [op |-> "add_edge", outcome |-> "panic"]
            /\ UNCHANGED <<nodes, edges, urls, observed, created>>
       ELSE /\ IF VecContains(At(edges, from), to)
               THEN UNCHANGED edges
               ELSE /\ Len(At(edges, from)) < MaxDeg
                    /\ edges' = [edges EXCEPT ![from + 1] = <<to>> \o @]
            /\ last' = [op |-> "add_edge", outcome |-> "ok",
                        known |-> VecContains(At(edges, from), to)]
            /\ UNCHANGED <<nodes, urls, observed, created>>

\* Collection::add_edge
add_edge(from, to) ==
    /\ Running
    /\ IF ~InBounds(edges, from)
       THEN /\ last' = [op |-> "add_edge", outcome |-> "panic"]
            /\ UNCHANGED <<nodes, edges, urls, observed, created>>
       ELSE /\ IF VecContains(At(edges, from), to)
               THEN UNCHANGED edges
               ELSE /\ Len(At(edges, from)) < MaxDeg
                    /\ edges' = [edges EXCEPT ![from + 1] = Append(@, to)]
            /\ last' = [op |-> "add_edge", outcome |-> "ok",
                        known |-> VecContains(At(edges, from), to)]
            /\ UNCHANGED <<nodes, urls, observed, created>>

\* Entity::merge called on a stored entity with a copy of another one:
\* c.entity_mut(i).merge(c.entity(j).clone()).
entity_mut_merge(i, j) ==
    /\ Running
    /\ IF InBounds(nodes, i) /\ InBounds(nodes, j)
       THEN /\ nodes' = [nodes EXCEPT ![i + 1] = Entity_merge(@, At(nodes, j))]
            /\ last' = [op |-> "entity_merge", outcome |-> "ok",
                        id |-> i, other |-> j]
       ELSE /\ last' = [op |-> "entity_merge", outcome |-> "panic"]
            /\ UNCHANGED nodes
    /\ UNCHANGED <<edges, urls, observed, created>>

\* Collection::len
len ==
    /\ Running
    /\ last' = IF Len(nodes) = Len(edges)
               THEN [op |-> "len", outcome |-> "ok", val |-> Len(nodes)]
               ELSE [op |-> "len", outcome |-> "panic"]
    /\ UNCHANGED <<nodes, edges, urls, observed, created>>

\* Collection::is_empty
is_empty ==
    /\ Running
    /\ last' = IF edges = <<>>
               THEN [op |-> "is_empty", outcome |-> "ok", val |-> (nodes = <<>>)]
               ELSE [op |-> "is_empty", outcome |-> "panic"]
    /\ UNCHANGED <<nodes, edges, urls, observed, created>>

\* ------------------------------------------------------- specifications

\* Every operation, with any argument.
Next ==
    \/ \E e \in Entities : add(e)
    \/ \E e \in Entities : merge(e)
    \/ \E from \in Ids, to \in Ids : add_edge(from, to)
    \/ len
    \/ is_empty

Spec == Init /\ [][Next]_vars

\* Ingestion alone (no edge), with observations that vary more.
NextIngest ==
    \/ \E e \in RichEntities : add(e)
    \/ \E e \in RichEntities : merge(e)
    \/ len
    \/ is_empty

SpecIngest == Init /\ [][NextIngest]_vars

\* merge is the only ingestion operation: add is never called directly.
NextMerge ==
    \/ \E e \in RichEntities : merge(e)
    \/ len
    \/ is_empty

SpecMerge == Init /\ [][NextMerge]_vars

\* The Ids this collection has returned so far.
Returned == {created[k] : k \in 1..Len(created)}

\* add_edge is called only with Ids this collection returned.
NextValid ==
    \/ \E e \in Entities : add(e)
    \/ \E e \in Entities : merge(e)
    \/ \E from \in Returned, to \in Returned : add_edge(from, to)
    \/ len
    \/ is_empty

SpecValid == Init /\ [][NextValid]_vars

\* Ingestion, and callers that merge one stored entity into another.
NextResident ==
    \/ \E e \in ResidentEntities : add(e)
    \/ \E e \in ResidentEntities : merge(e)
    \/ \E i \in Ids, j \in Ids : entity_mut_merge(i, j)

SpecResident == Init /\ [][NextResident]_vars

\* merge alone, fed the observations of a single URL.
NextOrder == \E e \in OneUrlEntities : merge(e)

SpecOrder == Init /\ [][NextOrder]_vars

\* --------------------------------------------------------------- claims

Min(S) == CHOOSE x \in S : \A y \in S : x <= y

\* The entity stored for URL u, as entity(id(u)) gives it.
Stored(u) == entity(urls[u])

\* C1: with merge the only ingestion, after every call the entity stored for
\* a URL has as created_at the minimum of the dates d1..dn of the entities
\* merged for that URL so far.
C1_CreatedAtIsMin ==
    \A u \in DOMAIN urls : Stored(u).created_at = Min(observed[u].dates)

\* A repeat-sight merge has just folded the last of MaxMergeDate different
\* dates into an entity, and its first date was not the earliest.
C1_Witness ==
    /\ last.op = "merge" /\ last.known /\ last.outcome = "ok"
    /\ \E u \in DOMAIN urls :
          /\ urls[u] = last.id
          /\ Cardinality(observed[u].dates) = MaxMergeDate
          /\ Stored(u).updated_at = observed[u].dates \ {Stored(u).created_at}

\* C2 (as claimed): with merge the only ingestion, the stored entity's
\* updated_at is {d1..dn} \ {min(d1..dn)}, so it never holds created_at.
C2_UpdatedAtExcludesMin ==
    \A u \in DOMAIN urls :
        Stored(u).updated_at = observed[u].dates \ {Min(observed[u].dates)}

\* C3: a merge of an entity whose URL the index holds returns the Id recorded
\* for that URL, leaves len(), the URL index and the edges as they were, and
\* changes no entity but the one at that Id.
C3_MergeKnownUrl ==
    [][\A e \in Entities :
          (contains(e.url) /\ last'.op = "merge" /\ merge(e)) =>
              /\ last'.outcome = "ok"
              /\ last'.id = urls[e.url]
              /\ Len(nodes') = Len(nodes)
              /\ urls' = urls
              /\ edges' = edges
              /\ \A i \in 0..(Len(nodes) - 1) :
                    i # urls[e.url] => At(nodes', i) = At(nodes, i)]_vars

\* A repeat-sight merge has just changed the entity at Id 0 of a collection
\* of two nodes, one of them with an edge.
C3_Witness ==
    /\ last.op = "merge" /\ last.known /\ last.outcome = "ok"
    /\ last.id = 0
    /\ Len(nodes) = 2
    /\ entity(0).updated_at # {}
    /\ At(edges, 0) # <<>>

\* C4: with merge the only ingestion, no two node slots hold the same URL,
\* len() is the number of distinct URLs merged so far, and the URL index
\* maps the URL of every slot i to i.
C4_MergeOnlyOneNodePerUrl ==
    /\ \A i, j \in 0..(Len(nodes) - 1) :
          entity(i).url = entity(j).url => i = j
    /\ Len(nodes) = Len(edges)
    /\ Len(nodes) = Cardinality({u \in Urls : observed[u].dates # {}})
    /\ \A i \in 0..(Len(nodes) - 1) :
          contains(entity(i).url) /\ urls[entity(i).url] = i

\* Both URLs have been merged, each of them more than once.
C4_Witness ==
    /\ Len(nodes) = 2
    /\ last.op = "merge" /\ last.known
    /\ \A i \in 0..1 : entity(i).updated_at # {}

\* The URL index holds one entry per node slot, and maps the URL of the
\* entity at every slot i to i.
UrlIndexMatchesSlots ==
    /\ Cardinality(DOMAIN urls) = Len(nodes)
    /\ \A i \in 0..(Len(nodes) - 1) :
          contains(entity(i).url) /\ urls[entity(i).url] = i

\* No URL is held by two node slots: add was never called for a URL the
\* index already held.
OneSlotPerUrl ==
    \A i, j \in 0..(Len(nodes) - 1) : entity(i).url = entity(j).url => i = j

\* C5 (as claimed): after any sequence of add / merge / add_edge calls the
\* URL index holds exactly one entry per node slot and maps the URL of the
\* entity at every slot i to i.
C5_UrlIndexAlways == UrlIndexMatchesSlots

\* C5 (amended): the same, in every state where add has not been called for
\* a URL the index already held (no URL is held by two slots).
C5_UrlIndexUnlessDuplicateAdd == OneSlotPerUrl => UrlIndexMatchesSlots

\* Two nodes with different URLs, the second created by add.
C5_Witness ==
    /\ Len(nodes) = 2 /\ OneSlotPerUrl
    /\ last.op = "add" /\ last.outcome = "ok" /\ last.id = 1

\* A call that creates a node: add, or merge of a URL the index lacks.
Creates(e) ==
    \/ last'.op = "add" /\ add(e)
    \/ last'.op = "merge" /\ ~contains(e.url) /\ merge(e)

\* C6: the Ids returned by node-creating calls are 0, 1, 2, ... in call
\* order, each the len() before its call and the slot of its node; a
\* repeat-sight merge or an add_edge moves neither the next Id nor the
\* slot of an existing node.
C6_DenseIds ==
    /\ [](/\ Len(created) = Len(nodes)
          /\ \A k \in 1..Len(created) : created[k] = k - 1)
    /\ [][\A e \in Entities :
             Creates(e) => /\ last'.id = Len(nodes)
                           /\ Len(nodes') = Len(nodes) + 1
                           /\ At(nodes', last'.id).url = e.url]_vars
    /\ [][\A e \in Entities :
             (contains(e.url) /\ last'.op = "merge" /\ merge(e)) =>
                 Len(nodes') = Len(nodes)]_vars
    /\ [][\A from \in Ids, to \in Ids :
             (last'.op = "add_edge" /\ add_edge(from, to)) =>
                 Len(nodes') = Len(nodes)]_vars
    /\ [][\A i \in 0..(Len(nodes) - 1) :
             At(nodes', i).url = At(nodes, i).url]_vars

\* A second node has just been created, after a repeat-sight merge into the
\* first node and an add_edge from it.
C6_Witness ==
    /\ last.op \in {"add", "merge"} /\ last.outcome = "ok" /\ ~last.known
    /\ last.id = 1
    /\ created = <<0, 1>>
    /\ entity(0).updated_at # {}
    /\ At(edges, 0) # <<>>

\* C7: after add(e) or merge(e) of an entity whose URL the collection lacks
\* returns Id r, contains(e.url) holds, id(e.url) is Some(r), and entity(r)
\* has e's URL, created_at, names and labels.
C7_FreshUrlIsIndexed ==
    [][\A e \in RichEntities :
          (~contains(e.url) /\ Creates(e)) =>
              /\ last'.outcome = "ok"
              /\ e.url \in DOMAIN urls'
              /\ urls'[e.url] = last'.id
              /\ InBounds(nodes', last'.id)
              /\ At(nodes', last'.id).url = e.url
              /\ At(nodes', last'.id).created_at = e.created_at
              /\ At(nodes', last'.id).names = e.names
              /\ At(nodes', last'.id).labels = e.labels]_vars

\* A merge of a URL the collection lacked has just created the second node,
\* from an entity with a name and a label.
C7_Witness ==
    /\ last.op = "merge" /\ last.outcome = "ok" /\ ~last.known
    /\ last.id = 1
    /\ entity(1).names # {} /\ entity(1).labels # {}
    /\ id(entity(1).url) = Some(1)

\* Vec with no element twice.
NoDuplicate(v) == \A j, k \in 1..Len(v) : v[j] = v[k] => j = k

\* C8: no adjacency list holds a target twice, and add_edge(a, b) with b
\* already in edges(a) leaves the collection as it was.
C8_AddEdgeIdempotent ==
    /\ [](\A i \in 0..(Len(edges) - 1) : NoDuplicate(At(edges, i)))
    /\ [][\A from \in Ids, to \in Ids :
             (/\ last'.op = "add_edge"
              /\ InBounds(edges, from)
              /\ VecContains(At(edges, from), to)
              /\ add_edge(from, to)) =>
                 UNCHANGED <<nodes, edges, urls>>]_vars

\* add_edge has just been called for a target already present, in a list of
\* two targets.
C8_Witness ==
    /\ last.op = "add_edge" /\ last.outcome = "ok" /\ last.known
    /\ \E i \in 0..(Len(edges) - 1) : Len(At(edges, i)) = 2

\* C9 (as claimed): add_edge(from, to) with `to` not the Id of a node
\* (to >= len()) does not return normally and records no edge.
C9_AddEdgeUnknownTargetPanics ==
    [][\A from \in Ids, to \in Ids :
          (to >= Len(nodes) /\ last'.op = "add_edge" /\ add_edge(from, to)) =>
              (last'.outcome = "panic" /\ edges' = edges)]_vars

\* C10 (as claimed): a merge of an observation identical to one already
\* folded in leaves the collection unchanged.  The case stated: the entity
\* stored for e's URL is e itself, so that (its updated_at being empty, and
\* every repeat-sight merge inserting a date there) e is the one observation
\* folded in so far.
C10_MergeIdempotent ==
    [][\A e \in RichEntities :
          (contains(e.url) /\ Stored(e.url) = e /\ merge(e)) =>
              UNCHANGED <<nodes, edges, urls>>]_vars

\* C11 (as claimed): is_empty() never fails: it returns true exactly when
\* len() == 0, and false on a collection of one or more nodes.
C11_IsEmptyNeverFails ==
    last.op = "is_empty" =>
        (last.outcome = "ok" /\ last.val = (Len(nodes) = 0))

\* C12: as long as every URL has one node (as it has with merge the only
\* ingestion), the names and labels of the entity stored for a URL are the
\* unions of the names and labels of the entities ingested for it; and no
\* step of add or merge removes a name or a label from a stored entity.
C12_NamesLabelsUnion ==
    /\ [](OneSlotPerUrl =>
            \A u \in DOMAIN urls :
                /\ Stored(u).names = observed[u].names
                /\ Stored(u).labels = observed[u].labels)
    /\ [][\A i \in 0..(Len(nodes) - 1) :
            /\ InBounds(nodes', i)
            /\ At(nodes, i).names \subseteq At(nodes', i).names
            /\ At(nodes, i).labels \subseteq At(nodes', i).labels]_vars

\* A repeat-sight merge has just left an entity with both names and the
\* label, gathered from more than one observation.
C12_Witness ==
    /\ last.op = "merge" /\ last.known /\ last.outcome = "ok"
    /\ OneSlotPerUrl /\ Len(nodes) = 2
    /\ entity(last.id).names = Names
    /\ entity(last.id).labels = Labels

\* C13: add and merge leave every existing adjacency list as it was (a call
\* that creates a node appends one empty list, a repeat-sight merge none);
\* add_edge(from, to) leaves the nodes, the URL index, len() and every
\* adjacency list but edges(from) as they were.
C13_Frame ==
    /\ [][\A e \in Entities :
            Creates(e) => edges' = Append(edges, <<>>)]_vars
    /\ [][\A e \in Entities :
            (contains(e.url) /\ last'.op = "merge" /\ merge(e)) =>
                edges' = edges]_vars
    /\ [][\A from \in Ids, to \in Ids :
            (last'.op = "add_edge" /\ add_edge(from, to)) =>
                /\ nodes' = nodes
                /\ urls' = urls
                /\ Len(edges') = Len(edges)
                /\ \A i \in 0..(Len(edges) - 1) :
                      i # from => At(edges', i) = At(edges, i)]_vars

\* A node has just been created in a collection whose first node has two
\* edges.
C13_Witness ==
    /\ last.op \in {"add", "merge"} /\ last.outcome = "ok" /\ last.id = 1
    /\ Len(At(edges, 0)) = 2
    /\ At(edges, 1) = <<>>

\* C14: contains(u) holds iff some node slot holds an entity with URL u,
\* id(u) is Some iff contains(u) holds, and when id(u) is Some(i) the entity
\* at slot i has URL u; also after add was called for a known URL.
C14_LookupMatchesNodes ==
    \A u \in Urls :
        /\ contains(u) <=> \E i \in 0..(Len(nodes) - 1) : entity(i).url = u
        /\ (id(u) # None) <=> contains(u)
        /\ id(u) # None =>
              /\ InBounds(nodes, id(u)[1])
              /\ entity(id(u)[1]).url = u

\* add has just been called for a URL the index held: two slots hold it,
\* and the other URL is in no slot.
C14_Witness ==
    /\ last.op = "add" /\ last.known /\ last.outcome = "ok"
    /\ ~OneSlotPerUrl
    /\ \E u \in Urls : ~contains(u)

\* C15: when add_edge is called only with Ids this collection returned,
\* every Id in any adjacency list is < len(nodes).
C15_EdgeTargetsAreNodes ==
    \A i \in 0..(Len(edges) - 1) :
        \A k \in 1..Len(At(edges, i)) : At(edges, i)[k] < Len(nodes)

\* add_edge has just filled an adjacency list with both Ids of a collection
\* of two nodes.
C15_Witness ==
    /\ last.op = "add_edge" /\ last.outcome = "ok" /\ ~last.known
    /\ Len(nodes) = 2
    /\ \E i \in 0..1 : Len(At(edges, i)) = 2

\* C16: len(nodes) == len(edges) in every reachable state, so the assertions
\* of len() and add() never fail, and len() returns the number of nodes
\* created so far.
C16_NodesAndEdgesSameLength ==
    /\ Len(nodes) = Len(edges)
    /\ last.op \in {"len", "add", "merge"} => last.outcome = "ok"
    /\ last.op = "len" => last.val = Len(created)

\* len() has just returned 2.
C16_Witness ==
    /\ last.op = "len" /\ last.outcome = "ok" /\ last.val = 2
    /\ Len(nodes) = 2

\* Sequence s is the head of sequence t.
IsPrefix(s, t) == Len(s) <= Len(t) /\ \A k \in 1..Len(s) : s[k] = t[k]

\* C17: edges(a) lists its targets in first-insertion order: no step takes a
\* target out of an adjacency list or moves it, add_edge(a, b) with b not
\* yet in edges(a) puts b at the end of edges(a) (also when b == a), and
\* with b already there changes nothing.
C17_FirstInsertionOrder ==
    /\ [][\A i \in 0..(Len(edges) - 1) :
            InBounds(edges', i) /\ IsPrefix(At(edges, i), At(edges', i))]_vars
    /\ [][\A from \in Ids, to \in Ids :
            (last'.op = "add_edge" /\ InBounds(edges, from)
                /\ add_edge(from, to)) =>
                At(edges', from) =
                    IF VecContains(At(edges, from), to)
                    THEN At(edges, from)
                    ELSE Append(At(edges, from), to)]_vars

\* edges(0) is [1, 0]: the self-loop came second, and a repeat call for a
\* present target has just been made.
C17_Witness ==
    /\ last.op = "add_edge" /\ last.outcome = "ok" /\ last.known
    /\ Len(nodes) = 2
    /\ At(edges, 0) = <<1, 0>>

\* C18: Entity::merge(other) has the effect of update(other.created_at,
\* other.names, other.labels): the result is the same whatever other's
\* updated_at and url are.
C18_MergeIgnoresHistory ==
    [][\A i \in Ids, j \in Ids :
          (/\ last'.op = "entity_merge"
           /\ InBounds(nodes, i) /\ InBounds(nodes, j)
           /\ entity_mut_merge(i, j)) =>
              /\ At(nodes', i) =
                    Entity_update(At(nodes, i), At(nodes, j).created_at,
                                  At(nodes, j).names, At(nodes, j).labels)
              /\ \A S \in SUBSET (1..MaxMergeDate), u \in Urls :
                    Entity_merge(At(nodes, i),
                                 [At(nodes, j) EXCEPT !.updated_at = S,
                                                      !.url = u])
                        = At(nodes', i)]_vars

\* A stored entity has just been merged into another one, and a date of its
\* updated_at is not among the dates of the result.
C18_Witness ==
    /\ last.op = "entity_merge" /\ last.outcome = "ok"
    /\ last.other # last.id
    /\ entity(last.other).url # entity(last.id).url
    /\ ~(entity(last.other).updated_at \subseteq
            entity(last.id).updated_at \cup {entity(last.id).created_at})

\* Two observations of the one URL of OneUrlEntities.
ObservationPairs == OneUrlEntities \X OneUrlEntities

\* C19: merging is order-independent.  Any two orders of the same
\* observations differ by exchanges of neighbours, so it is stated of two
\* observations a, b of one URL merged next, in either order: while the URL
\* is not stored, the node created from a with b folded in is the node
\* created from b with a folded in; once it is, folding a then b into its
\* entity gives what folding b then a gives.  (The Id is len() in the one
\* case and urls[u] in the other, whatever the entity.)
C19_MergeOrderIndependent ==
    \A p \in ObservationPairs :
        IF contains(p[1].url)
        THEN Entity_merge(Entity_merge(Stored(p[1].url), p[1]), p[2])
                = Entity_merge(Entity_merge(Stored(p[1].url), p[2]), p[1])
        ELSE Entity_merge(p[1], p[2]) = Entity_merge(p[2], p[1])

\* The URL is stored with the latest date as its created_at and a repeat
\* merge behind it, so that two earlier dates can still come in either order.
C19_Witness ==
    /\ last.op = "merge" /\ last.known /\ last.outcome = "ok"
    /\ \E u \in DOMAIN urls :
          /\ Stored(u).created_at = MaxMergeDate
          /\ Stored(u).updated_at # {}


\* Slot i holds a URL that a later slot holds too.
Superseded(i) ==
    \E j \in (i + 1)..(Len(nodes) - 1) : entity(j).url = entity(i).url

\* C20: add(e) for a URL already stored at Id i puts a second node with
\* that URL at the new Id j = old len() and leaves slot i as it was; id(url)
\* is always the newest slot holding the URL, so it is Some(j) afterwards;
\* every merge of a stored URL folds into the slot id(url) names and touches
\* no other slot; and no step ever changes a slot that a later slot with the
\* same URL has superseded.
C20_DuplicateAddTakesOver ==
    /\ [][\A e \in Entities :
            (contains(e.url) /\ last'.op = "add" /\ add(e)) =>
                /\ last'.outcome = "ok"
                /\ last'.id = Len(nodes)
                /\ Len(nodes') = Len(nodes) + 1
                /\ At(nodes', Len(nodes)).url = e.url
                /\ urls[e.url] < Len(nodes)
                /\ At(nodes', urls[e.url]) = entity(urls[e.url])
                /\ At(nodes', urls[e.url]).url = e.url
                /\ urls'[e.url] = Len(nodes)]_vars
    /\ [](\A u \in DOMAIN urls :
            /\ InBounds(nodes, urls[u])
            /\ Stored(u).url = u
            /\ ~Superseded(urls[u]))
    /\ [][\A e \in Entities :
            (contains(e.url) /\ last'.op = "merge" /\ merge(e)) =>
                /\ last'.id = urls[e.url]
                /\ urls' = urls
                /\ At(nodes', urls[e.url]) = Entity_merge(Stored(e.url), e)
                /\ \A i \in 0..(Len(nodes) - 1) :
                       i # urls[e.url] => At(nodes', i) = entity(i)]_vars
    /\ [][\A i \in 0..(Len(nodes) - 1) :
            Superseded(i) => At(nodes', i) = entity(i)]_vars

\* A URL sits in two slots, and a merge carrying something new has since been
\* folded into the newer one while the older one still is as add created it.
C20_Witness ==
    /\ Len(nodes) = 2
    /\ entity(0).url = entity(1).url
    /\ last.op = "merge" /\ last.known /\ last.outcome = "ok" /\ last.id = 1
    /\ entity(1).updated_at # {}
    /\ entity(0).updated_at = {}

====
